---- MODULE Spec2Model ----
(***************************************************************************)
(* Client-side session driver of the human-in-the-loop agent workflow.     *)
(* Two variants of the client are modelled, as in the repository:          *)
(*   "stream" : frontend/app.js    (LangGraph Server, SSE streaming)        *)
(*   "invoke" : frontend_ls/app.js (LangServe, one POST /agent/invoke)      *)
(* The browser is single threaded: every action below is one synchronous   *)
(* run of a handler or of an await continuation.  The rejection of an      *)
(* aborted fetch/read is delivered as a microtask, so the unwinding of an  *)
(* aborted call runs before any other event (see NoMicrotask).             *)
(***************************************************************************)
EXTENDS Integers, Sequences, FiniteSets, TLC

VARIABLES
  variant,            \* which client the page runs
  threadId,           \* let threadId
  stored,             \* localStorage[THREAD_ID_KEY]
  uiState,            \* let uiState
  logItems,           \* let logItems, cut to its newest entry: logItems.slice(0, 1), as tags
  currentController,  \* let currentController (index of the owning call, or Null)
  dom,                \* the DOM fields the handlers write
  tasks,              \* the start()/resume() calls and their await position
  nOps,               \* number of start()/resume() calls made so far
  nextId,             \* next identifier the id source (server / randomUUID) gives
  initPc,             \* await position of initAsync()
  savedTid,           \* const savedTid of initAsync()
  last,               \* history: the handler that ran last, its input, and how many
                      \* log entries it added
  tidAtInterrupt,     \* history: threadId when the phase last became waiting_approval
  bench               \* the locals of the one function a function-level specification runs

vars == <<variant, threadId, stored, uiState, logItems, currentController, dom,
          tasks, nOps, nextId, initPc, savedTid, last, tidAtInterrupt, bench>>

\* ---- bounds ----
MaxOps == 2
MaxFrames == 1

\* ---- program constants ----
Null == 0
MAX_LOG_ITEMS == 80
REQUEST_TIMEOUT_MS == 0
SHOW_NOISY_SSE == FALSE

Ops == 1..MaxOps
Variants == {"stream", "invoke"}
Phases == {"idle", "starting", "waiting_approval", "resuming", "done", "error"}
Decisions == {"y", "retry", "n"}

\* ---- JSON payloads (SSE data, thread snapshots) ----
NullPayload == [kind |-> "null", question |-> "", options |-> <<>>, analysis_preview |-> "none"]
PayloadQ == [kind |-> "", question |-> "Q1", options |-> <<>>, analysis_preview |-> "P1"]
PayloadQ2 == [kind |-> "approval_request", question |-> "Q2", options |-> <<>>, analysis_preview |-> "none"]
EmptyObjPayload == [kind |-> "", question |-> "", options |-> <<>>, analysis_preview |-> "none"]
SyntheticInterrupt ==
  [kind |-> "approval_request", question |-> "Approve?",
   options |-> <<"y", "retry", "n">>, analysis_preview |-> "empty"]

\* a candidate location: absent, [] , [x], or x ; x possibly {value: p}
NoCand == [shape |-> "absent", wrap |-> FALSE, p |-> NullPayload]
Cand(shape, wrap, p) == [shape |-> shape, wrap |-> wrap, p |-> p]

\* an object: the four candidate locations, status, values.final_report,
\* values.current_step, and the top-level entries of an "updates" payload
Obj(c1, c2, c3, c4, st, hasValues, rep, step, ents) ==
  [i1 |-> c1, i2 |-> c2, i3 |-> c3, i4 |-> c4, status |-> st, hasValues |-> hasValues,
   final_report |-> rep, current_step |-> step, entries |-> ents]
EmptyObj == Obj(NoCand, NoCand, NoCand, NoCand, "", TRUE, "", "", <<>>)

Truthy(c) == c.shape # "absent"
Qualifies(p) ==
  p.kind = "approval_request" \/ p.question # "" \/ p.analysis_preview # "none"

\* for (const c of candidates) { ... }
RECURSIVE FirstQualifying(_)
FirstQualifying(cs) ==
  IF cs = <<>> THEN NullPayload
  ELSE LET c == Head(cs)
           firstOk == c.shape \in {"array", "plain"}
           payload == c.p
       IN IF firstOk /\ payload.kind # "null" /\ Qualifies(payload)
          THEN payload
          ELSE FirstQualifying(Tail(cs))

\* an extractor that looks at the two __interrupt__ locations only
extractInterruptPayload_twoLocations(obj) ==
  LET candidates == SelectSeq(<<obj.i1, obj.i2>>, Truthy)
      hit == FirstQualifying(candidates)
  IN IF hit # NullPayload THEN hit
     ELSE IF obj.status = "interrupted" THEN SyntheticInterrupt
     ELSE NullPayload

\* an extractor without the fallback on status
extractInterruptPayload_noFallback(obj) ==
  FirstQualifying(SelectSeq(<<obj.i1, obj.i2, obj.i3, obj.i4>>, Truthy))

extractInterruptPayload(obj) ==
  LET candidates == SelectSeq(<<obj.i1, obj.i2, obj.i3, obj.i4>>, Truthy)
      hit == FirstQualifying(candidates)
  IN IF hit # NullPayload THEN hit
     ELSE IF obj.status = "interrupted" THEN SyntheticInterrupt
     ELSE NullPayload

\* String.prototype.trim on the strings the model uses
Trim(s) == IF s = " " THEN "" ELSE s

extractFinalReportFromThread(obj) ==
  IF ~obj.hasValues THEN ""
  ELSE IF Trim(obj.final_report) # "" THEN obj.final_report ELSE ""

extractCurrentStepFromThread(obj) ==
  IF ~obj.hasValues THEN "" ELSE obj.current_step

\* ---- UI helpers: S is what a handler run writes, [uiState, dom, logItems], and the
\* number of log entries it added so far ----
UI == [uiState |-> uiState, dom |-> dom, logItems |-> logItems, added |-> 0]

setError(S, message) ==
  IF message = "" THEN [S EXCEPT !.dom.errorBanner = ""]
  ELSE [S EXCEPT !.dom.errorBanner = message]

setWork(S, nodeKeyOrLabel) ==
  [S EXCEPT !.dom.work = IF nodeKeyOrLabel = "" THEN "-" ELSE nodeKeyOrLabel]

setUiState(S, state) ==
  LET busy == state \in {"starting", "resuming"}
      waiting == state = "waiting_approval"
      locked == IF variant = "stream" THEN busy \/ waiting ELSE busy
  IN [S EXCEPT !.uiState = state,
               !.dom.startDisabled = locked,
               !.dom.clearDisabled = locked,
               !.dom.decisionDisabled = ~waiting,
               !.dom.cancelShown = busy]

Min(a, b) == IF a < b THEN a ELSE b

\* an insertion that never cuts the log
unshiftCapped_noCut(items, e, cap) == <<e>> \o items

\* logItems.unshift(e); if (logItems.length > MAX) logItems = logItems.slice(0, MAX)
unshiftCapped(items, e, cap) ==
  LET l == <<e>> \o items
  IN IF Len(l) > cap THEN SubSeq(l, 1, cap) ELSE l

\* the part of the log the state keeps
Newest(items) == SubSeq(items, 1, Min(Len(items), 1))

addLogEntry(S, tag) ==
  [S EXCEPT !.logItems = Newest(unshiftCapped(@, tag, MAX_LOG_ITEMS)),
            !.added = @ + 1]

resetViewForRun(S) ==
  [setError(S, "") EXCEPT !.dom.approvalShown = FALSE,
                          !.dom.reportShown = FALSE]

\* show(approvalCard); questionEl.textContent = payload.question || dflt
renderApproval(S, payload, dflt) ==
  [S EXCEPT !.dom.approvalShown = TRUE,
            !.dom.question = IF payload.question = "" THEN dflt ELSE payload.question]

showApprovalIfNeeded(S, payload) ==
  IF payload = NullPayload THEN S
  ELSE IF S.uiState = "waiting_approval" THEN S
  ELSE addLogEntry(renderApproval(setUiState(S, "waiting_approval"), payload, "Approve?"),
                   "HITL")

showReport(S, text) ==
  [S EXCEPT !.dom.reportShown = TRUE, !.dom.reportText = text]

\* a catch that reports the error but leaves the phase
runWithUiCatch_keepsPhase(S, msg) ==
  addLogEntry(setError(S, msg), "ERROR")

\* catch (e) { ... } of runWithUi
runWithUiCatch(S, msg) ==
  addLogEntry(setError(setUiState(S, "error"), msg), "ERROR")

\* ---- SSE interpretation ----
NODE_LABEL_KEYS ==
  {"research_agent", "tools", "summary_agent", "market_agent", "technical_agent",
   "human_approval", "report_agent"}

\* a decoded frame: event name, and data (an object, or a non-object string)
Ev(event, isObj, data) == [event |-> event, isObj |-> isObj, data |-> data]

RECURSIVE pickCurrentStepFromUpdates(_)
pickCurrentStepFromUpdates(ents) ==
  IF ents = <<>> THEN ""
  ELSE IF Trim(Head(ents).cs) # "" THEN Trim(Head(ents).cs)
  ELSE pickCurrentStepFromUpdates(Tail(ents))

RECURSIVE pickNodeKeyFromUpdates(_)
pickNodeKeyFromUpdates(ents) ==
  IF ents = <<>> THEN ""
  ELSE IF Head(ents).k \in NODE_LABEL_KEYS THEN Head(ents).k
  ELSE pickNodeKeyFromUpdates(Tail(ents))

\* a classifier that drops keepalive/metadata frames before it looks for an interrupt
handleSseEvent_noiseFirst(S, ev) ==
  LET raw == ev.data
      eventName == ev.event
      interruptPayload == IF ev.isObj THEN extractInterruptPayload(raw) ELSE NullPayload
      step == IF ev.isObj /\ raw.hasValues THEN raw.current_step ELSE ""
      S1 == IF step # "" THEN setWork(S, step) ELSE S
      stepFromUpdates == IF ev.isObj THEN pickCurrentStepFromUpdates(raw.entries) ELSE ""
      nodeKey == IF ev.isObj THEN pickNodeKeyFromUpdates(raw.entries) ELSE ""
  IN IF eventName \in {"metadata", "ping", "keepalive"} THEN S
     ELSE IF interruptPayload # NullPayload THEN showApprovalIfNeeded(S, interruptPayload)
     ELSE IF eventName = "updates" /\ ev.isObj /\ stepFromUpdates # ""
          THEN setWork(S1, stepFromUpdates)
     ELSE IF eventName = "updates" /\ nodeKey # "" THEN addLogEntry(S1, "AGENT")
     ELSE IF eventName = "values" /\ step # "" THEN addLogEntry(S1, "STATE")
     ELSE S1

handleSseEvent(S, ev) ==
  LET raw == ev.data
      eventName == ev.event
      interruptPayload == IF ev.isObj THEN extractInterruptPayload(raw) ELSE NullPayload
      step == IF ev.isObj /\ raw.hasValues THEN raw.current_step ELSE ""
      S1 == IF step # "" THEN setWork(S, step) ELSE S
      stepFromUpdates == IF ev.isObj THEN pickCurrentStepFromUpdates(raw.entries) ELSE ""
      nodeKey == IF ev.isObj THEN pickNodeKeyFromUpdates(raw.entries) ELSE ""
  IN IF interruptPayload # NullPayload THEN showApprovalIfNeeded(S, interruptPayload)
     ELSE IF ~SHOW_NOISY_SSE /\ eventName \in {"metadata", "ping", "keepalive"} THEN S
     ELSE IF eventName = "updates" /\ ev.isObj /\ stepFromUpdates # ""
          THEN setWork(S1, stepFromUpdates)
     ELSE IF eventName = "updates" /\ nodeKey # "" THEN addLogEntry(S1, "AGENT")
     ELSE IF eventName = "updates" /\ ~SHOW_NOISY_SSE THEN S1
     ELSE IF eventName = "values" /\ step # "" THEN addLogEntry(S1, "STATE")
     ELSE IF eventName = "values" /\ ~SHOW_NOISY_SSE THEN S1
     ELSE IF eventName = "values" THEN addLogEntry(S1, "STATE")
     ELSE IF ~SHOW_NOISY_SSE THEN S1
     ELSE addLogEntry(S1, "SSE")

\* ---- what the server may send (representative inputs) ----
IntrCand == Cand("array", TRUE, PayloadQ)
WithEntries(o, ents) == [o EXCEPT !.entries = ents]

FrameNames == {"interrupt", "agent"}
Frame(n) ==
  CASE n = "interrupt" ->
         Ev("updates", TRUE, [EmptyObj EXCEPT !.i1 = IntrCand, !.hasValues = FALSE])
    [] n = "agent" ->
         Ev("updates", TRUE,
            WithEntries([EmptyObj EXCEPT !.hasValues = FALSE],
                        <<[k |-> "research_agent", cs |-> ""]>>))
    [] n = "step" ->
         Ev("updates", TRUE,
            WithEntries([EmptyObj EXCEPT !.hasValues = FALSE],
                        <<[k |-> "research_start", cs |-> "research_agent"]>>))
    [] n = "values" ->
         Ev("values", TRUE, [EmptyObj EXCEPT !.current_step = "human_approval"])
    [] OTHER -> Ev("ping", FALSE, EmptyObj)

SnapshotNames == {"none", "report", "interrupt", "interrupt+report"}
Snapshot(n) ==
  CASE n = "report" -> [EmptyObj EXCEPT !.final_report = "R1"]
    [] n = "interrupt" -> [EmptyObj EXCEPT !.i1 = Cand("array", TRUE, PayloadQ2)]
    [] n = "interrupt+report" ->
         [EmptyObj EXCEPT !.i3 = Cand("plain", FALSE, PayloadQ2), !.final_report = "R1"]
    [] n = "status" -> [EmptyObj EXCEPT !.status = "interrupted"]
    [] OTHER -> EmptyObj

\* ---- the calls in flight ----
\* a call that has started and not yet returned or thrown
InFlightPc(pc) == pc \notin {"none", "done"}

\* by: the cause of the abort() that aborted the call's signal ("" while not aborted)
\* reason: the call's entry in abortReasons (frontend_ls only)
NoTask == [kind |-> "", pc |-> "none", tid |-> Null, events |-> 0,
           by |-> "", reason |-> ""]
\* a call that returned or threw: its locals are gone
Done(task) == [NoTask EXCEPT !.pc = "done"]
UnwindPcs == {"unwindFetch", "unwindRead", "unwindInvoke"}

\* a rejected await resumes in a microtask: it runs before the next event
NoMicrotask == \A t \in Ops : tasks[t].pc \notin UnwindPcs

\* controller.abort(): the pending fetch / reader.read() of its call rejects
abortController(ts, c, reason) ==
  IF c = Null \/ ~InFlightPc(ts[c].pc) THEN ts
  ELSE [ts EXCEPT ![c].by = IF @ = "" THEN reason ELSE @,
                  ![c].reason = IF variant = "invoke" THEN reason ELSE @,
                  ![c].pc = CASE @ = "fetch" -> "unwindFetch"
                              [] @ = "read" -> "unwindRead"
                              [] @ = "invoke" -> "unwindInvoke"
                              [] OTHER -> @]

\* runStream that forgets to cancel the existing stream
runStream_noCancel(ts, t, tid) ==
  [ts EXCEPT ![t].pc = "fetch", ![t].tid = tid, ![t].events = 0]

\* runStream up to its first await: cancel the existing stream, open a new one
runStream(ts, t, tid) ==
  [abortController(ts, currentController, "superseded")
     EXCEPT ![t].pc = "fetch", ![t].tid = tid, ![t].events = 0]

\* callInvoke up to its await
callInvoke(ts, t, tid) ==
  [abortController(ts, currentController, "superseded")
     EXCEPT ![t].pc = "invoke", ![t].tid = tid]

\* the writes of one handler run: the UI triple, threadId, and the history
Commit(S, newTid, op, t, arg) ==
  /\ uiState' = S.uiState
  /\ dom' = S.dom
  /\ logItems' = S.logItems
  /\ threadId' = newTid
  /\ last' = [op |-> op, t |-> t, arg |-> arg, added |-> S.added]
  /\ tidAtInterrupt' = IF S.uiState = "waiting_approval" /\ uiState # "waiting_approval"
                       THEN newTid ELSE tidAtInterrupt
  /\ bench' = bench

\* no function-level run
NoBench == [fn |-> "none"]

Dom0 ==
  [startDisabled |-> FALSE, clearDisabled |-> FALSE, decisionDisabled |-> TRUE,
   cancelShown |-> FALSE, errorBanner |-> "", approvalShown |-> FALSE,
   reportShown |-> FALSE, question |-> "", reportText |-> "", work |-> "-"]

\* the page after its load handler ran: initAsync() up to its await, or init()
Init ==
  /\ variant \in Variants
  /\ stored \in {Null, 1}
  /\ nextId = 2
  /\ savedTid = stored
  /\ threadId = IF variant = "invoke" THEN stored ELSE Null
  /\ uiState = "idle"
  /\ dom = Dom0
  /\ logItems = <<"UI">>
  /\ initPc = IF variant = "stream" /\ stored # Null THEN "poll" ELSE "done"
  /\ currentController = Null
  /\ tasks = [t \in Ops |-> NoTask]
  /\ nOps = 0
  /\ last = [op |-> "load", t |-> 0, arg |-> "",
             added |-> IF variant = "invoke" /\ stored # Null THEN 2 ELSE 1]
  /\ tidAtInterrupt = Null
  /\ bench = NoBench

\* ---- frontend/app.js ----
\* click on Start (or Enter): runWithUi(start), up to await createThread()
start(t) ==
  /\ variant = "stream" /\ NoMicrotask
  /\ ~dom.startDisabled
  /\ nOps < MaxOps /\ t = nOps + 1
  /\ tasks' = [tasks EXCEPT ![t] = [NoTask EXCEPT !.kind = "start", !.pc = "createThread"]]
  /\ nOps' = t
  /\ Commit(resetViewForRun(setError(UI, "")), threadId, "start", t, "")
  /\ UNCHANGED <<variant, stored, currentController, nextId, initPc, savedTid>>

\* ensureThreadIdFromServer after createThread() returned, then start()/resume()
\* up to the fetch of runStream
createThreadOk(t) ==
  /\ variant = "stream" /\ NoMicrotask
  /\ tasks[t].pc = "createThread"
  /\ LET id == nextId
         S1 == addLogEntry(UI, "THREAD")
         S2 == IF tasks[t].kind = "start"
               THEN addLogEntry(setUiState(setWork(S1, "-"), "starting"), "START")
               ELSE addLogEntry(setUiState(S1, "resuming"), "RESUME")
     IN /\ threadId' = id
        /\ stored' = id
        /\ nextId' = id + 1
        /\ tasks' = runStream(tasks, t, id)
        /\ currentController' = t
        /\ Commit(S2, id, "createThreadOk", t, "")
  /\ UNCHANGED <<variant, nOps, initPc, savedTid>>

\* createThread() throws: non-2xx, or a response without thread_id
createThreadFail(t, why) ==
  /\ variant = "stream" /\ NoMicrotask
  /\ tasks[t].pc = "createThread"
  /\ tasks' = [tasks EXCEPT ![t] = Done(@)]
  /\ Commit(runWithUiCatch(UI, why), threadId, "createThreadFail", t, why)
  /\ UNCHANGED <<variant, stored, currentController, nOps, nextId, initPc, savedTid>>

\* the streaming response arrived with a 2xx status
fetchOk(t) ==
  /\ variant = "stream" /\ NoMicrotask
  /\ tasks[t].pc = "fetch"
  /\ tasks' = [tasks EXCEPT ![t].pc = "read"]
  /\ Commit(UI, threadId, "fetchOk", t, "")
  /\ UNCHANGED <<variant, stored, currentController, nOps, nextId, initPc, savedTid>>

\* a catch that also drops the session
fetchFail_clearsSession(t, why) ==
  /\ variant = "stream" /\ NoMicrotask
  /\ tasks[t].pc = "fetch"
  /\ tasks' = [tasks EXCEPT ![t] = Done(@)]
  /\ stored' = Null
  /\ Commit(runWithUiCatch(UI, why), Null, "fetchFail", t, why)
  /\ UNCHANGED <<variant, currentController, nOps, nextId, initPc, savedTid>>

\* fetch rejected, or !res.ok: thrown before the try/finally of runStream
fetchFail(t, why) ==
  /\ variant = "stream" /\ NoMicrotask
  /\ tasks[t].pc = "fetch"
  /\ tasks' = [tasks EXCEPT ![t] = Done(@)]
  /\ Commit(runWithUiCatch(UI, why), threadId, "fetchFail", t, why)
  /\ UNCHANGED <<variant, stored, currentController, nOps, nextId, initPc, savedTid>>

\* one frame of the body: onEvent(ev)
readFrame(t, n) ==
  /\ variant = "stream" /\ NoMicrotask
  /\ tasks[t].pc = "read"
  /\ tasks[t].events < MaxFrames
  /\ tasks' = [tasks EXCEPT ![t].events = @ + 1]
  /\ Commit(handleSseEvent(UI, Frame(n)), threadId, "frame", t, n)
  /\ UNCHANGED <<variant, stored, currentController, nOps, nextId, initPc, savedTid>>

\* reader.read() gave done: finally, the zero-event warning, then await getThread
\* a close that finalizes the phase without waiting for the snapshot
readClose_marksDone(t) ==
  /\ variant = "stream" /\ NoMicrotask
  /\ tasks[t].pc = "read"
  /\ tasks' = [tasks EXCEPT ![t].pc = "poll"]
  /\ currentController' = IF currentController = t THEN Null ELSE currentController
  /\ Commit(setUiState(UI, "done"), threadId, "close", t, "")
  /\ UNCHANGED <<variant, stored, nOps, nextId, initPc, savedTid>>

\* a close that treats a stream without frames as a failure
readClose_raisesError(t) ==
  /\ variant = "stream" /\ NoMicrotask
  /\ tasks[t].pc = "read"
  /\ tasks' = [tasks EXCEPT ![t] = IF @.events = 0 THEN Done(@) ELSE [@ EXCEPT !.pc = "poll"]]
  /\ currentController' = IF currentController = t THEN Null ELSE currentController
  /\ Commit(IF tasks[t].events = 0 THEN runWithUiCatch(UI, "noevents") ELSE UI,
            threadId, "close", t, "")
  /\ UNCHANGED <<variant, stored, nOps, nextId, initPc, savedTid>>

readClose(t) ==
  /\ variant = "stream" /\ NoMicrotask
  /\ tasks[t].pc = "read"
  /\ tasks' = [tasks EXCEPT ![t].pc = "poll"]
  /\ currentController' = IF currentController = t THEN Null ELSE currentController
  /\ Commit(IF tasks[t].events = 0 THEN addLogEntry(UI, "WARN") ELSE UI, threadId, "close", t, "")
  /\ UNCHANGED <<variant, stored, nOps, nextId, initPc, savedTid>>

\* reader.read() rejected (connection lost): finally, then the catch of runWithUi
readFail(t) ==
  /\ variant = "stream" /\ NoMicrotask
  /\ tasks[t].pc = "read"
  /\ tasks' = [tasks EXCEPT ![t] = Done(@)]
  /\ currentController' = IF currentController = t THEN Null ELSE currentController
  /\ Commit(runWithUiCatch(UI, "network"), threadId, "readFail", t, "network")
  /\ UNCHANGED <<variant, stored, nOps, nextId, initPc, savedTid>>

\* finishRun that looks at the final report before the interrupt
finishRun_reportFirst(S, threadObj) ==
  LET payload == extractInterruptPayload(threadObj)
      report == extractFinalReportFromThread(threadObj)
  IN IF report # ""
     THEN addLogEntry(showReport(setUiState(S, "done"), report), "DONE")
     ELSE IF payload # NullPayload THEN showApprovalIfNeeded(S, payload)
     ELSE addLogEntry(showReport(setUiState(S, "done"), "(no final report)"), "DONE")

\* start()/resume() after getThread(tid) returned
finishRun(S, threadObj) ==
  LET payload == extractInterruptPayload(threadObj)
      currentStep == extractCurrentStepFromThread(threadObj)
      S1 == IF currentStep # "" THEN setWork(S, currentStep) ELSE S
      report == extractFinalReportFromThread(threadObj)
  IN IF payload # NullPayload THEN showApprovalIfNeeded(S1, payload)
     ELSE IF report = ""
          THEN addLogEntry(showReport(setUiState(S1, "done"), "(no final report)"), "DONE")
     ELSE addLogEntry(showReport(setUiState(S1, "done"), report), "DONE")

\* a completion that drops the session once the run is over
pollOk_dropsSession(t, n) ==
  /\ variant = "stream" /\ NoMicrotask
  /\ tasks[t].pc = "poll"
  /\ tasks' = [tasks EXCEPT ![t] = Done(@)]
  /\ LET S == finishRun(UI, Snapshot(n))
     IN /\ stored' = IF S.uiState = "done" THEN Null ELSE stored
        /\ Commit(S, IF S.uiState = "done" THEN Null ELSE threadId, "poll", t, n)
  /\ UNCHANGED <<variant, currentController, nOps, nextId, initPc, savedTid>>

pollOk(t, n) ==
  /\ variant = "stream" /\ NoMicrotask
  /\ tasks[t].pc = "poll"
  /\ tasks' = [tasks EXCEPT ![t] = Done(@)]
  /\ Commit(finishRun(UI, Snapshot(n)), threadId, "poll", t, n)
  /\ UNCHANGED <<variant, stored, currentController, nOps, nextId, initPc, savedTid>>

pollFail(t) ==
  /\ variant = "stream" /\ NoMicrotask
  /\ tasks[t].pc = "poll"
  /\ tasks' = [tasks EXCEPT ![t] = Done(@)]
  /\ Commit(runWithUiCatch(UI, "http"), threadId, "pollFail", t, "http")
  /\ UNCHANGED <<variant, stored, currentController, nOps, nextId, initPc, savedTid>>

\* the message of the error an aborted call throws
abortMessage(t) ==
  IF variant = "stream" THEN "AbortError"
  ELSE CASE tasks[t].reason = "timeout" -> "aborted: timeout"
         [] tasks[t].reason = "user" -> "aborted: user"
         [] tasks[t].reason = "superseded" -> "aborted: superseded"
         [] OTHER -> "aborted"

\* the aborted await rejects: finally (when inside the try), then the catch of runWithUi
unwind(t) ==
  /\ tasks[t].pc \in UnwindPcs
  /\ tasks' = [tasks EXCEPT ![t] = Done(@)]
  /\ currentController' =
       IF tasks[t].pc \in {"unwindRead", "unwindInvoke"} /\ currentController = t
       THEN Null ELSE currentController
  /\ Commit(runWithUiCatch(UI, abortMessage(t)), threadId, "unwind", t, tasks[t].by)
  /\ UNCHANGED <<variant, stored, nOps, nextId, initPc, savedTid>>

\* the start of handleDecision and runWithUi, common to both clients
decisionView(S) ==
  LET S0 == [S EXCEPT !.dom.decisionDisabled = TRUE,
                      !.dom.startDisabled = TRUE,
                      !.dom.clearDisabled = TRUE]
  IN resetViewForRun(setError(setUiState(S0, "resuming"), ""))

\* click on approve / retry / reject: handleDecision, resume() up to its first
\* network await
handleDecision(d, t) ==
  /\ variant = "stream" /\ NoMicrotask
  /\ ~dom.decisionDisabled
  /\ nOps < MaxOps /\ t = nOps + 1
  /\ nOps' = t
  /\ LET born == [tasks EXCEPT ![t] = [NoTask EXCEPT !.kind = "resume"]]
     IN IF threadId # Null
        THEN /\ tasks' = runStream(born, t, threadId)
             /\ currentController' = t
             /\ Commit(addLogEntry(setUiState(decisionView(UI), "resuming"), "RESUME"),
                       threadId, "handleDecision", t, d)
        ELSE /\ tasks' = [born EXCEPT ![t].pc = "createThread"]
             /\ currentController' = currentController
             /\ Commit(decisionView(UI), threadId, "handleDecision", t, d)
  /\ UNCHANGED <<variant, stored, nextId, initPc, savedTid>>

\* cancelInFlight that aborts without the log entry
cancelInFlight_silent ==
  /\ NoMicrotask
  /\ dom.cancelShown
  /\ tasks' = abortController(tasks, currentController, "user")
  /\ Commit(UI, threadId, "cancelInFlight", currentController, "abort")
  /\ UNCHANGED <<variant, stored, currentController, nOps, nextId, initPc, savedTid>>

\* click on Cancel (shown only while busy)
cancelInFlight ==
  /\ NoMicrotask
  /\ dom.cancelShown
  /\ IF currentController = Null
     THEN /\ tasks' = tasks
          /\ Commit(UI, threadId, "cancelInFlight", 0, "nothing")
     ELSE /\ tasks' = abortController(tasks, currentController, "user")
          /\ Commit(addLogEntry(UI, "UI"), threadId, "cancelInFlight", currentController, "abort")
  /\ UNCHANGED <<variant, stored, currentController, nOps, nextId, initPc, savedTid>>

\* clearAll that forgets clearThreadId()
clearAll_keepsStorage ==
  /\ NoMicrotask
  /\ ~dom.clearDisabled
  /\ stored' = stored
  /\ LET S1 == [UI EXCEPT !.dom.approvalShown = FALSE, !.dom.reportShown = FALSE]
         S2 == setWork(setUiState(setError(S1, ""), "idle"), "-")
     IN Commit([S2 EXCEPT !.logItems = <<>>], Null, "clearAll", 0, "")
  /\ UNCHANGED <<variant, tasks, currentController, nOps, nextId, initPc, savedTid>>

\* click on Clear
clearAll ==
  /\ NoMicrotask
  /\ ~dom.clearDisabled
  /\ stored' = Null
  /\ LET S1 == [UI EXCEPT !.dom.approvalShown = FALSE, !.dom.reportShown = FALSE]
         S2 == setWork(setUiState(setError(S1, ""), "idle"), "-")
     IN Commit([S2 EXCEPT !.logItems = <<>>], Null, "clearAll", 0, "")
  /\ UNCHANGED <<variant, tasks, currentController, nOps, nextId, initPc, savedTid>>

\* initAsync() after getThread(savedTid) returned
initDone(n) ==
  /\ variant = "stream" /\ NoMicrotask
  /\ initPc = "poll"
  /\ initPc' = "done"
  /\ LET t == Snapshot(n)
         payload == extractInterruptPayload(t)
         currentStep == extractCurrentStepFromThread(t)
         S1 == IF currentStep # "" THEN setWork(UI, currentStep) ELSE UI
     IN IF payload # NullPayload
        THEN /\ stored' = stored
             /\ Commit(renderApproval(setUiState(addLogEntry(S1, "UI"), "waiting_approval"),
                                      payload, "Approve?"),
                       savedTid, "initDone", 0, n)
        ELSE /\ stored' = Null
             /\ Commit(addLogEntry(S1, "UI"), threadId, "initDone", 0, n)
  /\ UNCHANGED <<variant, tasks, currentController, nOps, nextId, savedTid>>

\* a restoration that reports the failed poll as an error and keeps the identifier
initFail_raisesError ==
  /\ variant = "stream" /\ NoMicrotask
  /\ initPc = "poll"
  /\ initPc' = "done"
  /\ stored' = stored
  /\ Commit(runWithUiCatch(UI, "http"), savedTid, "initFail", 0, "")
  /\ UNCHANGED <<variant, tasks, currentController, nOps, nextId, savedTid>>

\* initAsync(): getThread(savedTid) threw
initFail ==
  /\ variant = "stream" /\ NoMicrotask
  /\ initPc = "poll"
  /\ initPc' = "done"
  /\ stored' = Null
  /\ Commit(addLogEntry(UI, "WARN"), threadId, "initFail", 0, "")
  /\ UNCHANGED <<variant, tasks, currentController, nOps, nextId, savedTid>>

\* ---- frontend_ls/app.js ----
\* click on Start (or Enter): runWithUi(start), up to the fetch of callInvoke
start_ls(t) ==
  /\ variant = "invoke" /\ NoMicrotask
  /\ ~dom.startDisabled
  /\ nOps < MaxOps /\ t = nOps + 1
  /\ nOps' = t
  /\ LET tid == IF threadId # Null THEN threadId ELSE nextId   \* ensureThreadId()
         S1 == resetViewForRun(setError(UI, ""))
     IN /\ stored' = IF threadId # Null THEN stored ELSE tid
        /\ nextId' = IF threadId # Null THEN nextId ELSE nextId + 1
        /\ tasks' = callInvoke([tasks EXCEPT ![t] = [NoTask EXCEPT !.kind = "start"]], t, tid)
        /\ currentController' = t
        /\ Commit(addLogEntry(setUiState(S1, "starting"), "START"), tid, "start", t, "")
  /\ UNCHANGED <<variant, initPc, savedTid>>

handleDecision_ls(d, t) ==
  /\ variant = "invoke" /\ NoMicrotask
  /\ ~dom.decisionDisabled
  /\ nOps < MaxOps /\ t = nOps + 1
  /\ nOps' = t
  /\ LET tid == IF threadId # Null THEN threadId ELSE nextId   \* threadId || ensureThreadId()
     IN /\ stored' = IF threadId # Null THEN stored ELSE tid
        /\ nextId' = IF threadId # Null THEN nextId ELSE nextId + 1
        /\ tasks' = callInvoke([tasks EXCEPT ![t] = [NoTask EXCEPT !.kind = "resume"]], t, tid)
        /\ currentController' = t
        /\ Commit(addLogEntry(setUiState(decisionView(UI), "resuming"), "RESUME"),
                  tid, "handleDecision", t, d)
  /\ UNCHANGED <<variant, initPc, savedTid>>

\* what /agent/invoke may answer: output.status, and output.thread_id
\* (absent, the one sent, or another one)
OutStatus == {"interrupted", "completed", "other"}
OutTid == {"none", "same", "other"}

\* a completion that shows the report also when the run was interrupted
finishInvoke_ignoresInterrupt(S, status) ==
  LET S1 == addLogEntry(S, "API")
      S2 == [S1 EXCEPT !.dom.approvalShown = FALSE]
  IN IF status \in {"interrupted", "completed"}
     THEN addLogEntry(showReport(setUiState(S2, "done"), "R1"), "DONE")
     ELSE addLogEntry(setError(setUiState(S2, "error"), "Unexpected response format"),
                      "ERROR")

\* start()/resume() after callInvoke returned data with an output
finishInvoke(S, status) ==
  LET S1 == addLogEntry(S, "API")
      S2 == [S1 EXCEPT !.dom.approvalShown = FALSE]
  IN IF status = "interrupted"
     THEN addLogEntry(renderApproval(setUiState(S1, "waiting_approval"), PayloadQ,
                                     "Do you approve?"), "HITL")
     ELSE IF status = "completed"
     THEN addLogEntry(showReport(setUiState(S2, "done"), "R1"), "DONE")
     ELSE addLogEntry(setError(setUiState(S2, "error"), "Unexpected response format"),
                      "ERROR")

invokeOk(t, status, tm) ==
  /\ variant = "invoke" /\ NoMicrotask
  /\ tasks[t].pc = "invoke"
  /\ tasks' = [tasks EXCEPT ![t] = Done(@)]
  /\ currentController' = IF currentController = t THEN Null ELSE currentController
  /\ LET newTid == CASE tm = "same" -> tasks[t].tid
                      [] tm = "other" -> nextId
                      [] OTHER -> threadId
     IN /\ stored' = IF tm = "none" THEN stored ELSE newTid
        /\ nextId' = IF tm = "other" THEN nextId + 1 ELSE nextId
        /\ Commit(finishInvoke(UI, status), newTid, "invokeOk", t, status)
  /\ UNCHANGED <<variant, nOps, initPc, savedTid>>

\* callInvoke threw (non-2xx, network), or data.output is missing (TypeError)
invokeFail(t, why) ==
  /\ variant = "invoke" /\ NoMicrotask
  /\ tasks[t].pc = "invoke"
  /\ tasks' = [tasks EXCEPT ![t] = Done(@)]
  /\ currentController' = IF currentController = t THEN Null ELSE currentController
  /\ Commit(runWithUiCatch(IF why = "nooutput" THEN addLogEntry(UI, "API") ELSE UI, why),
            threadId, "invokeFail", t, why)
  /\ UNCHANGED <<variant, stored, nOps, nextId, initPc, savedTid>>

\* ---- the system ----
Next ==
  \/ \E t \in Ops : start(t)
  \/ \E t \in Ops : createThreadOk(t)
  \/ \E t \in Ops, why \in {"nothreadid"} : createThreadFail(t, why)
  \/ \E t \in Ops : fetchOk(t)
  \/ \E t \in Ops, why \in {"http"} : fetchFail(t, why)
  \/ \E t \in Ops, n \in FrameNames : readFrame(t, n)
  \/ \E t \in Ops : readClose(t)
  \/ \E t \in Ops : readFail(t)
  \/ \E t \in Ops, n \in SnapshotNames : pollOk(t, n)
  \/ \E t \in Ops : pollFail(t)
  \/ \E t \in Ops : unwind(t)
  \/ \E t \in Ops, d \in Decisions : handleDecision(d, t)
  \/ cancelInFlight
  \/ clearAll
  \/ \E n \in SnapshotNames : initDone(n)
  \/ initFail
  \/ \E t \in Ops : start_ls(t)
  \/ \E t \in Ops, d \in Decisions : handleDecision_ls(d, t)
  \/ \E t \in Ops, st \in OutStatus, tm \in OutTid : invokeOk(t, st, tm)
  \/ \E t \in Ops, why \in {"http", "nooutput"} : invokeFail(t, why)

Spec == Init /\ [][Next]_vars

\* every network call eventually returns or fails; a rejected await resumes
Complete(t) ==
  \/ createThreadOk(t)
  \/ \E why \in {"nothreadid"} : createThreadFail(t, why)
  \/ fetchOk(t)
  \/ readClose(t)
  \/ \E n \in SnapshotNames : pollOk(t, n)
  \/ \E st \in OutStatus, tm \in OutTid : invokeOk(t, st, tm)
  \/ unwind(t)

FairSpec == Spec /\ \A t \in Ops : WF_vars(Complete(t))

\* ---- vocabulary of the properties ----
InFlight(t) == InFlightPc(tasks[t].pc)
Open(t) == tasks[t].pc \in {"fetch", "read", "invoke"}
Busy == {"starting", "resuming"}
Settled == {"waiting_approval", "done", "error"}
\* the call t sends its run request in this step
Sends(t, kind) ==
  /\ tasks[t].pc \notin {"fetch", "invoke"}
  /\ tasks'[t].pc \in {"fetch", "invoke"}
  /\ tasks'[t].kind = kind
HasInterrupt(n) == extractInterruptPayload(Snapshot(n)) # NullPayload

\* C1: whenever the phase is waiting_approval, threadId is non-null and durable
\* storage holds the same identifier.
C1_AwaitingHasDurableSession ==
  uiState = "waiting_approval" => (threadId # Null /\ stored = threadId)

\* C2: every start sends its run with an identifier never used before, and never
\* with the identifier that is current when it is invoked.
C2_StartAllocatesFreshId ==
  [][\A t \in Ops : Sends(t, "start") =>
        (tasks'[t].tid >= nextId /\ tasks'[t].tid # threadId)]_vars

\* C3: every resume request carries the identifier that was current when the phase
\* last became waiting_approval, and resume allocates no identifier.
C3_ResumeReusesSessionId ==
  [][\A t \in Ops :
        /\ Sends(t, "resume") => (tasks'[t].tid = tidAtInterrupt /\ tasks'[t].tid # Null)
        /\ (tasks[t].kind = "resume" \/ tasks'[t].kind = "resume") /\ tasks[t].pc # tasks'[t].pc
             /\ tasks[t].pc \in {"none", "createThread"} => nextId' = nextId]_vars

\* C4: at most one transport (stream request or invoke request) is open and not
\* aborted at any time, and it is the one currentController registers.
C4_AtMostOneOpenTransport ==
  /\ Cardinality({t \in Ops : Open(t)}) <= 1
  /\ \A t \in Ops : Open(t) => currentController = t
\* two starts without a reset between them: the second one cancelled the first
C4_Witness ==
  \E t, u \in Ops :
     /\ tasks[t].kind = "start" /\ tasks[t].pc \in UnwindPcs /\ tasks[t].by = "superseded"
     /\ tasks[u].kind = "start" /\ Open(u)

\* C5: every start or resume ends with the phase in waiting_approval, done or error
\* (the step in which it returns or throws leaves such a phase), no phase is
\* starting or resuming once no call is in flight, and, network calls returning,
\* every call in flight eventually ends.
C5_OperationSettles ==
  /\ [][\A t \in Ops : (InFlight(t) /\ tasks'[t].pc = "done") => uiState' \in Settled]_vars
  /\ []((\A t \in Ops : ~InFlight(t)) => uiState \notin Busy)
  /\ \A t \in Ops : (InFlight(t) ~> tasks[t].pc = "done")
C5_Witness ==
  /\ last.op \in {"poll", "invokeOk"}
  /\ \A t \in Ops : tasks[t].pc = "done"
  /\ uiState = "done"

\* a failure of start or resume: a transport failure or a malformed response
FailureStep(t) ==
  \/ \E why \in {"nothreadid"} : createThreadFail(t, why)
  \/ \E why \in {"http"} : fetchFail(t, why)
  \/ readFail(t)
  \/ pollFail(t)
  \/ \E why \in {"http", "nooutput"} : invokeFail(t, why)
  \/ \E tm \in OutTid : invokeOk(t, "other", tm)

\* C6 as stated: on a transport failure or malformed response the phase becomes
\* error and threadId and the stored identifier are what they were before.
C6_FailureKeepsSessionId ==
  [][\A t \in Ops : FailureStep(t) =>
        (uiState' = "error" /\ threadId' = threadId /\ stored' = stored)]_vars
\* C6 as amended: the phase becomes error and the identifier is not cleared; it is
\* unchanged, except that frontend_ls first adopts, in memory and in storage, the
\* thread_id a malformed response carries.
C6_FailureNeverClearsSessionId ==
  [][\A t \in Ops :
        /\ FailureStep(t) =>
             /\ uiState' = "error"
             /\ threadId # Null => threadId' # Null
             /\ stored # Null => stored' # Null
        /\ FailureStep(t) /\ ~(\E tm \in {"same", "other"} : invokeOk(t, "other", tm)) =>
             (threadId' = threadId /\ stored' = stored)
        /\ invokeOk(t, "other", "same") => (threadId' = tasks[t].tid /\ stored' = tasks[t].tid)
        /\ invokeOk(t, "other", "other") => (threadId' = nextId /\ stored' = nextId)]_vars
C6_Witness ==
  /\ last.op = "fetchFail"
  /\ uiState = "error"
  /\ threadId # Null /\ stored = threadId

\* C7 as stated: a user cancel while starting or resuming aborts the open transport
\* and adds a log entry, and after the aborted call has unwound the phase is still
\* the one it was when cancel was pressed.
C7_CancelKeepsPhase ==
  [][/\ (cancelInFlight /\ currentController # Null /\ Open(currentController)) =>
          /\ tasks'[currentController].by = "user"
          /\ last'.added = 1
          /\ uiState' = uiState
     /\ \A t \in Ops : (unwind(t) /\ tasks[t].by = "user") => uiState' = uiState]_vars
\* C7 as amended: cancel is offered only while starting or resuming and never
\* changes the phase itself; with a transport registered it adds one log entry,
\* and it aborts that transport when it is still open; the unwinding of the
\* aborted call then moves the phase to error.
C7_CancelThenError ==
  [][/\ cancelInFlight => (uiState \in Busy /\ uiState' = uiState)
     /\ (cancelInFlight /\ currentController # Null) =>
          (last'.added = 1 /\ logItems' = <<"UI">>)
     /\ (cancelInFlight /\ currentController = Null) =>
          (last'.added = 0 /\ logItems' = logItems /\ tasks' = tasks)
     /\ (cancelInFlight /\ currentController # Null /\ Open(currentController)) =>
          /\ tasks'[currentController].pc \in UnwindPcs
          /\ tasks'[currentController].by = "user"
     /\ \A t \in Ops : (unwind(t) /\ tasks[t].by = "user") => uiState' = "error"]_vars
C7_Witness ==
  /\ last.op = "unwind" /\ last.arg = "user"
  /\ uiState = "error"

\* C8: on load with a persisted identifier the snapshot is polled once; an
\* interrupt in it makes the phase waiting_approval with the persisted identifier
\* the active one; otherwise the identifier leaves storage and the phase is idle.
C8_StartupRestore ==
  /\ (last.op = "load" /\ savedTid # Null) => initPc = "poll"
  /\ (last.op = "initDone" /\ HasInterrupt(last.arg)) =>
        (uiState = "waiting_approval" /\ dom.approvalShown /\ threadId = savedTid)
  /\ (last.op = "initDone" /\ ~HasInterrupt(last.arg)) =>
        (stored = Null /\ uiState = "idle")

\* C9: a stream that closes normally is followed by the poll of the snapshot, no
\* call ends in waiting_approval or done without it, and the snapshot decides:
\* an interrupt gives waiting_approval even beside a report, else a non-empty
\* report gives done with that report, else done with "(no final report)".
C9_SnapshotDecides ==
  [][\A t \in Ops :
        /\ readClose(t) => (tasks'[t].pc = "poll" /\ uiState' = uiState)
        /\ (variant = "stream" /\ InFlight(t) /\ tasks'[t].pc = "done" /\ tasks[t].pc # "poll")
             => uiState' = "error"
        /\ \A n \in SnapshotNames :
             pollOk(t, n) =>
               LET report == extractFinalReportFromThread(Snapshot(n))
               IN IF HasInterrupt(n)
                  THEN uiState' = "waiting_approval" /\ dom'.approvalShown
                  ELSE /\ uiState' = "done" /\ dom'.reportShown /\ dom'.errorBanner = dom.errorBanner
                       /\ dom'.reportText = IF report # "" THEN report ELSE "(no final report)"]_vars
C9_Witness ==
  /\ last.op = "poll" /\ last.arg = "interrupt+report"
  /\ uiState = "waiting_approval" /\ ~dom.reportShown

\* the view and the session after a reset
ResetState ==
  /\ uiState = "idle"
  /\ threadId = Null /\ stored = Null
  /\ logItems = <<>>
  /\ ~dom.approvalShown /\ ~dom.reportShown /\ dom.errorBanner = ""

\* C10 as stated: reset is accepted in every phase, and is followed by ResetState.
C10_ResetFromEveryPhase ==
  /\ ~dom.clearDisabled
  /\ last.op = "clearAll" => ResetState
\* C10 as amended: reset is accepted exactly when the phase is not starting or
\* resuming and, in the streaming client, not waiting_approval either; it is
\* followed by ResetState.
C10_ResetWhenUnlocked ==
  /\ dom.clearDisabled <=>
       (uiState \in Busy \/ (variant = "stream" /\ uiState = "waiting_approval"))
  /\ last.op = "clearAll" => ResetState
\* a reset after a call of start or resume has ended
C10_Witness ==
  /\ last.op = "clearAll"
  /\ \E t \in Ops : tasks[t].pc = "done"
  /\ ResetState

\* the message that names one cause of an abort
CauseMessage(cause) ==
  CASE cause = "timeout" -> "aborted: timeout"
    [] cause = "user" -> "aborted: user"
    [] cause = "superseded" -> "aborted: superseded"
    [] OTHER -> "unclassified"

\* C11: the error shown when an aborted call unwinds names the cause of the abort
\* that cancelled it (user, superseded or timeout), never a generic abort message.
C11_AbortCauseReported ==
  [][\A t \in Ops : unwind(t) =>
        /\ tasks[t].by \in {"user", "superseded", "timeout"}
        /\ dom'.errorBanner = CauseMessage(tasks[t].by)]_vars

\* ---- function-level specifications ----
mainVars == <<variant, threadId, stored, uiState, logItems, currentController, dom,
              tasks, nOps, nextId, initPc, savedTid, last, tidAtInterrupt>>

\* the page at rest while one function is run on its own
Parked ==
  /\ variant = "stream" /\ threadId = Null /\ stored = Null /\ uiState = "idle"
  /\ logItems = <<"UI">> /\ currentController = Null /\ dom = Dom0
  /\ tasks = [t \in Ops |-> NoTask] /\ nOps = 0 /\ nextId = 2
  /\ initPc = "done" /\ savedTid = Null
  /\ last = [op |-> "load", t |-> 0, arg |-> "", added |-> 1]
  /\ tidAtInterrupt = Null

\* ---- the read loop of runStream ----
\* The body is a sequence of characters: TextDecoder in stream mode hands over
\* whole characters whatever the byte split.  "d" is the start of a data line
\* (it stands for the field name "data:"); CR and LF are the two line-end characters.
MaxBody == 6
CR == "CR"
LF == "LF"
Chars == {"d", CR, LF}
Bodies(longest) == UNION {[1..n -> Chars] : n \in 0..longest}

\* s.replace(/\r\n/g, "\n"): one pass, left to right
RECURSIVE normalize(_)
normalize(s) ==
  IF s = <<>> THEN <<>>
  ELSE IF Len(s) >= 2 /\ s[1] = CR /\ s[2] = LF
       THEN <<LF>> \o normalize(SubSeq(s, 3, Len(s)))
       ELSE <<s[1]>> \o normalize(Tail(s))

\* s.indexOf("\n\n"), 1-based; 0 for -1
indexOfSep(s) ==
  LET hits == {i \in 1..(Len(s) - 1) : s[i] = LF /\ s[i + 1] = LF}
  IN IF hits = {} THEN 0 ELSE CHOOSE i \in hits : \A j \in hits : i <= j

\* s.trim(): CR and LF are white space, "d" is not
trim(s) ==
  LET keep == {i \in 1..Len(s) : s[i] \notin {CR, LF}}
  IN IF keep = {} THEN <<>>
     ELSE SubSeq(s, CHOOSE i \in keep : \A j \in keep : i <= j,
                    CHOOSE i \in keep : \A j \in keep : i >= j)

\* s.split("\n")
RECURSIVE split(_)
split(s) ==
  LET hits == {i \in 1..Len(s) : s[i] = LF}
  IN IF hits = {} THEN <<s>>
     ELSE LET i == CHOOSE i \in hits : \A j \in hits : i <= j
          IN <<SubSeq(s, 1, i - 1)>> \o split(SubSeq(s, i + 1, Len(s)))

\* the dataLines of parseSseFrame: for each line that starts a data field, the
\* rest of the line, trimmed; empty lines and other lines are skipped
RECURSIVE dataLinesOf(_)
dataLinesOf(lines) ==
  IF lines = <<>> THEN <<>>
  ELSE LET line == Head(lines)
       IN (IF line # <<>> /\ line[1] = "d" THEN <<trim(Tail(line))>> ELSE <<>>)
            \o dataLinesOf(Tail(lines))

parseSseFrame(frameText) == dataLinesOf(split(normalize(frameText)))

\* while ((sepIndex = buffer.indexOf("\n\n")) !== -1) { ... }
RECURSIVE drain(_, _)
drain(buffer, events) ==
  LET sepIndex == indexOfSep(buffer)
  IN IF sepIndex = 0 THEN [buffer |-> buffer, events |-> events]
     ELSE LET frame == trim(SubSeq(buffer, 1, sepIndex - 1))
              rest == SubSeq(buffer, sepIndex + 2, Len(buffer))
          IN drain(rest, IF frame = <<>> THEN events
                         ELSE Append(events, parseSseFrame(frame)))

\* one turn of the read loop on the chunk value
onChunk(b, value) == drain(normalize(b.buffer \o value), b.events)

DecInit ==
  /\ Parked
  /\ bench \in {[fn |-> "runStream", body |-> b, pos |-> 0, buffer |-> <<>>, events |-> <<>>] :
                 b \in Bodies(MaxBody)}

\* reader.read() returns the next k characters of the body
readChunk(k) ==
  /\ bench.fn = "runStream"
  /\ bench.pos + k <= Len(bench.body)
  /\ LET r == onChunk(bench, SubSeq(bench.body, bench.pos + 1, bench.pos + k))
     IN bench' = [bench EXCEPT !.pos = @ + k, !.buffer = r.buffer, !.events = r.events]
  /\ UNCHANGED mainVars

DecNext == \E k \in 1..MaxBody : readChunk(k)

DecSpec == DecInit /\ [][DecNext]_vars

\* the events delivered when the body arrives as one chunk
Whole(body) == drain(normalize(body), <<>>).events

\* C12: however the body is cut into chunks, once it has all been read the
\* events delivered are those delivered when it arrives as a single chunk.
C12_ChunkingIndependent ==
  (bench.fn = "runStream" /\ bench.pos = Len(bench.body)) =>
     bench.events = Whole(bench.body)

\* the blocks of s that a blank line ("\n\n") closes, in order
RECURSIVE DelimitedBlocks(_)
DelimitedBlocks(s) ==
  IF \A i \in 1..(Len(s) - 1) : ~(s[i] = LF /\ s[i + 1] = LF) THEN <<>>
  ELSE LET i == CHOOSE i \in 1..(Len(s) - 1) :
                  /\ s[i] = LF /\ s[i + 1] = LF
                  /\ \A j \in 1..(i - 1) : ~(s[j] = LF /\ s[j + 1] = LF)
       IN <<SubSeq(s, 1, i - 1)>> \o DelimitedBlocks(SubSeq(s, i + 2, Len(s)))

\* the blocks with content, each as the event it parses to
RECURSIVE FramesOfBlocks(_)
FramesOfBlocks(blocks) ==
  IF blocks = <<>> THEN <<>>
  ELSE (IF trim(Head(blocks)) = <<>> THEN <<>> ELSE <<parseSseFrame(trim(Head(blocks)))>>)
         \o FramesOfBlocks(Tail(blocks))

\* C13: at every point of the read, the events delivered so far are, in order and
\* one each, the blocks with content that a blank line has closed in the part of
\* the body read so far; a block without content gives no event.
C13_OneFramePerBlock ==
  bench.fn = "runStream" =>
     bench.events = FramesOfBlocks(DelimitedBlocks(normalize(SubSeq(bench.body, 1, bench.pos))))

\* ---- extractInterruptPayload on its own ----
MaxPopulated == 2
Descriptors == {PayloadQ, PayloadQ2, EmptyObjPayload, NullPayload}
\* what a populated location can hold: [], x, [x], {value: x}, [{value: x}]
PopCands ==
  {Cand("empty", FALSE, NullPayload)}
    \cup {Cand(sh, w, d) : sh \in {"array", "plain"}, w \in BOOLEAN, d \in Descriptors}
\* the candidate at location k
At(obj, k) == <<obj.i1, obj.i2, obj.i3, obj.i4>>[k]
Populated(obj) == {k \in 1..4 : At(obj, k) # NoCand}
\* the object with the locations K populated by f
Place(K, f, st, hv) ==
  LET c(k) == IF k \in K THEN f[k] ELSE NoCand
  IN Obj(c(1), c(2), c(3), c(4), st, hv, "", "", <<>>)
\* the object has at most MaxPopulated locations populated; locations 2 and 4
\* are fields of obj.values
ExtInit ==
  /\ Parked
  /\ \E K \in SUBSET (1..4) :
       /\ Cardinality(K) <= MaxPopulated
       /\ \E f \in [K -> PopCands], st \in {"", "interrupted", "busy"}, hv \in BOOLEAN :
            /\ (K \cap {2, 4} # {}) => hv
            /\ bench = [fn |-> "extractInterruptPayload", obj |-> Place(K, f, st, hv),
                        calls |-> 0, result |-> NullPayload, previous |-> NullPayload]

\* one call of the extractor on the object
extract ==
  /\ bench.fn = "extractInterruptPayload"
  /\ bench.calls < 2
  /\ bench' = [bench EXCEPT !.calls = @ + 1, !.previous = bench.result,
                            !.result = extractInterruptPayload(bench.obj)]
  /\ UNCHANGED mainVars

ExtNext == extract

ExtSpec == ExtInit /\ [][ExtNext]_vars

\* one descriptor, at one location only, directly or in a sequence / under value
OneDescriptor(obj) ==
  /\ Cardinality(Populated(obj)) = 1
  /\ \A k \in Populated(obj) : At(obj, k).shape \in {"array", "plain"}
\* the same descriptor, bare, at obj.__interrupt__
Canonical(obj) ==
  LET k == CHOOSE k \in Populated(obj) : TRUE
  IN [EmptyObj EXCEPT !.i1 = Cand("plain", FALSE, At(obj, k).p), !.status = obj.status]

\* C14: with one descriptor at one of the four locations, bare or wrapped, the
\* result is the one obtained with that descriptor bare at obj.__interrupt__ (the
\* descriptor itself when it qualifies), and a second call gives the first's result.
C14_LocationIndependent ==
  (bench.fn = "extractInterruptPayload" /\ bench.calls >= 1) =>
     /\ OneDescriptor(bench.obj) =>
          /\ bench.result = extractInterruptPayload(Canonical(bench.obj))
          /\ LET d == At(bench.obj, CHOOSE k \in Populated(bench.obj) : TRUE).p
             IN (d # NullPayload /\ Qualifies(d)) => bench.result = d
     /\ bench.calls = 2 => bench.result = bench.previous
C14_Witness ==
  /\ bench.fn = "extractInterruptPayload" /\ bench.calls = 2
  /\ Populated(bench.obj) = {4}
  /\ bench.obj.i4 = Cand("array", TRUE, PayloadQ)
  /\ bench.result = PayloadQ

\* no location holds a descriptor that qualifies
NoneQualifies(obj) ==
  \A k \in 1..4 :
     \/ At(obj, k).shape \notin {"array", "plain"}
     \/ At(obj, k).p = NullPayload
     \/ ~Qualifies(At(obj, k).p)

\* C15: when no location holds a qualifying descriptor the result is the synthetic
\* interrupt (approval_request, "Approve?", [y, retry, n], empty preview) if status
\* is "interrupted", and null otherwise.
C15_StatusFallback ==
  (bench.fn = "extractInterruptPayload" /\ bench.calls >= 1 /\ NoneQualifies(bench.obj)) =>
     bench.result =
       IF bench.obj.status = "interrupted"
       THEN [kind |-> "approval_request", question |-> "Approve?",
             options |-> <<"y", "retry", "n">>, analysis_preview |-> "empty"]
       ELSE NullPayload
C15_Witness ==
  /\ bench.fn = "extractInterruptPayload" /\ bench.calls = 1
  /\ bench.obj.status = "interrupted"
  /\ bench.obj.i2 = Cand("array", TRUE, EmptyObjPayload)
  /\ NoneQualifies(bench.obj)
  /\ bench.result.question = "Approve?"

\* ---- the log on its own ----
\* Entries are numbered in the order of their insertion.
MaxInserts == 2

\* the log after k insertions into an empty log, k <= MAX_LOG_ITEMS
LogOf(k) == [i \in 1..k |-> k - i + 1]

LogInit ==
  /\ Parked
  /\ bench \in {[fn |-> "addLogEntry", items |-> LogOf(k), before |-> LogOf(k),
                  entry |-> k, inserted |-> 0] : k \in 0..MAX_LOG_ITEMS}

\* addLogEntry / addLog with the next entry
insertEntry ==
  /\ bench.fn = "addLogEntry"
  /\ bench.inserted < MaxInserts
  /\ bench' = [bench EXCEPT !.before = bench.items, !.entry = @ + 1, !.inserted = @ + 1,
                            !.items = unshiftCapped(@, bench.entry + 1, MAX_LOG_ITEMS)]
  /\ UNCHANGED mainVars

LogNext == insertEntry

LogSpec == LogInit /\ [][LogNext]_vars

\* C16: the log never holds more than 80 entries; an insertion puts the new entry
\* at index 0 and keeps the others in their order, and into a log of 80 it evicts
\* the oldest entry (the last one).
C16_LogCapped ==
  bench.fn = "addLogEntry" =>
    /\ Len(bench.items) <= 80
    /\ bench.inserted >= 1 =>
         /\ bench.items[1] = bench.entry
         /\ Len(bench.before) < 80 => bench.items = <<bench.entry>> \o bench.before
         /\ Len(bench.before) = 80 =>
              /\ Len(bench.items) = 80
              /\ \A i \in 2..80 : bench.items[i] = bench.before[i - 1]
              /\ \A i \in 1..80 : bench.items[i] # bench.before[80]
C16_Witness ==
  /\ bench.fn = "addLogEntry" /\ bench.inserted = 1
  /\ Len(bench.before) = 80 /\ bench.before[80] = 1
  /\ Len(bench.items) = 80 /\ bench.items[1] = 81 /\ bench.items[80] = 2

DecisionStep ==
  \E t \in Ops, d \in Decisions : handleDecision(d, t) \/ handleDecision_ls(d, t)

\* C18: a decision is accepted only in waiting_approval and moves the phase to
\* resuming in the same step; and while the resume it sent is in flight, nothing
\* but that resume's own events (a frame of its stream, its snapshot poll, its
\* invoke response) brings waiting_approval, with its enabled decision buttons,
\* back: the answered interrupt cannot be answered a second time.
C18_OneResumePerInterrupt ==
  [][/\ DecisionStep => (uiState = "waiting_approval" /\ uiState' = "resuming"
                          /\ dom'.decisionDisabled)
     /\ ~dom.decisionDisabled => uiState = "waiting_approval"
     /\ (/\ nOps >= 1 /\ tasks[nOps].kind = "resume" /\ InFlight(nOps)
         /\ uiState # "waiting_approval" /\ uiState' = "waiting_approval")
          => (last'.t = nOps /\ last'.op \in {"frame", "poll", "invokeOk"})]_vars

\* C19: the unwinding of a run that a newer start or resume superseded leaves the
\* phase, the error banner and the session identifier of the newer run as they
\* are; the phase does not become error because of it.
C19_SupersededUnwindIsSilent ==
  [][\A t \in Ops : (unwind(t) /\ tasks[t].by = "superseded") =>
        /\ uiState' = uiState
        /\ dom'.errorBanner = dom.errorBanner
        /\ threadId' = threadId /\ stored' = stored]_vars

\* C20 as stated: from waiting_approval the phase moves only to resuming or to
\* idle; frames, the close of the stream and the snapshot poll never move it to
\* done or error.
C20_AwaitingLeavesByDecisionOrReset ==
  [][uiState = "waiting_approval" =>
        uiState' \in {"waiting_approval", "resuming", "idle"}]_vars
\* C20 as amended: in waiting_approval a frame, the close of the stream, and a
\* snapshot (of a run or of the startup restore) that shows an interrupt leave
\* the phase; it moves to resuming by a decision, to idle by reset (frontend_ls
\* only), to starting by a start (frontend_ls, or a streaming start clicked
\* earlier whose thread is created now), to done by a snapshot without
\* interrupt, and to error by the failure or abort of a call still in flight.
C20_AwaitingTransitions ==
  [][uiState = "waiting_approval" =>
       /\ \A t \in Ops :
            /\ (readClose(t) \/ \E n \in FrameNames : readFrame(t, n)) =>
                  uiState' = "waiting_approval"
            /\ \A n \in SnapshotNames :
                  (pollOk(t, n) \/ initDone(n)) =>
                     (uiState' = "waiting_approval" <=> (HasInterrupt(n) \/ initDone(n)))
       /\ uiState' = "resuming" =>
            (DecisionStep \/ \E t \in Ops : tasks[t].kind = "resume" /\ createThreadOk(t))
       /\ uiState' = "idle" => (clearAll /\ variant = "invoke")
       /\ uiState' = "starting" =>
            \E t \in Ops : start_ls(t) \/ (tasks[t].kind = "start" /\ createThreadOk(t))
       /\ uiState' = "done" =>
            \E t \in Ops, n \in SnapshotNames : pollOk(t, n) /\ ~HasInterrupt(n)
       /\ uiState' = "error" =>
            \E t \in Ops : InFlight(t) /\ tasks'[t].pc = "done"
                             /\ (FailureStep(t) \/ unwind(t))]_vars
C20_Witness ==
  /\ last.op = "close"
  /\ uiState = "waiting_approval"
  /\ \E t \in Ops : tasks[t].pc = "poll" /\ tasks[t].events >= 1

\* the question an interrupt descriptor puts on the approval card
QuestionOf(payload) == IF payload.question = "" THEN "Approve?" ELSE payload.question

\* C21: whenever the snapshot of a finished stream carries an interrupt and the phase
\* is waiting_approval, the interrupt on the approval card is the snapshot's, also
\* when the stream had shown a different one before.
C21_SnapshotInterruptExposed ==
  (last.op = "poll" /\ HasInterrupt(last.arg) /\ uiState = "waiting_approval")
    => dom.question = QuestionOf(extractInterruptPayload(Snapshot(last.arg)))

\* ---- the classifier on its own ----
\* the longest list of node entries an "updates" payload carries
MaxEntries == 1

EventNames == {"updates", "values", "metadata", "ping", "keepalive", "custom"}

\* node entries of an "updates" payload: a known or unknown key, with or without
\* a string current_step
NodeEntries ==
  {[k |-> k, cs |-> cs] : k \in {"research_agent", "research_start"},
                          cs \in {"", "research_agent"}}

\* Object.keys(u) of pick*FromUpdates: u is raw.updates when the payload has one,
\* else raw itself, whose keys include "values"
KeysOfU(ents, wrapped, hv, vs, valuesFirst) ==
  IF wrapped \/ ~hv THEN ents
  ELSE IF valuesFirst THEN <<[k |-> "values", cs |-> vs]>> \o ents
  ELSE ents \o <<[k |-> "values", cs |-> vs]>>

\* the view before the frame: a phase, the approval card when waiting, a work badge
ViewIn(phase, work) ==
  LET S0 == [uiState |-> "idle", dom |-> Dom0, logItems |-> <<"UI">>, added |-> 0]
      S1 == setWork(setUiState(S0, phase), work)
  IN IF phase = "waiting_approval" THEN renderApproval(S1, PayloadQ2, "Approve?") ELSE S1

ClsInit ==
  /\ Parked
  /\ \E e \in EventNames, isObj \in BOOLEAN, K \in SUBSET (1..4), hv \in BOOLEAN,
        vs \in {"", "human_approval"}, wrapped \in BOOLEAN, valuesFirst \in BOOLEAN,
        n \in 0..MaxEntries, phase \in Phases, work \in {"-", "tools"} :
       /\ Cardinality(K) <= 1
       /\ (K \cap {2, 4} # {} \/ vs # "") => hv
       /\ (wrapped \/ ~hv) => valuesFirst
       /\ ~isObj => (K = {} /\ ~hv /\ wrapped /\ n = 0)
       /\ \E ents \in [1..n -> NodeEntries] :
            LET o == Place(K, [k \in K |-> IntrCand], "", hv)
                raw == [o EXCEPT !.current_step = vs,
                                 !.entries = KeysOfU(ents, wrapped, hv, vs, valuesFirst)]
            IN bench = [fn |-> "handleSseEvent", ev |-> Ev(e, isObj, raw),
                        S |-> ViewIn(phase, work), R |-> ViewIn(phase, work), calls |-> 0]

\* onEvent(ev) on that view
classify ==
  /\ bench.fn = "handleSseEvent"
  /\ bench.calls = 0
  /\ bench' = [bench EXCEPT !.R = handleSseEvent(bench.S, bench.ev), !.calls = 1]
  /\ UNCHANGED mainVars

ClsNext == classify

ClsSpec == ClsInit /\ [][ClsNext]_vars

\* C22: a frame whose payload yields an interrupt at a candidate location has no
\* effect but the interrupt, whatever its event name: the phase is waiting_approval,
\* the card shows that interrupt when the phase was not waiting_approval already,
\* the step, the report and the error banner are untouched, and the only log entry
\* it can add is the one of the interrupt.
C22_InterruptTakesPriority ==
  (bench.fn = "handleSseEvent" /\ bench.calls = 1 /\ bench.ev.isObj
     /\ extractInterruptPayload(bench.ev.data) # NullPayload) =>
    LET p == extractInterruptPayload(bench.ev.data)
        S == bench.S
        R == bench.R
    IN /\ R.uiState = "waiting_approval"
       /\ R.dom.work = S.dom.work
       /\ R.dom.reportShown = S.dom.reportShown /\ R.dom.reportText = S.dom.reportText
       /\ R.dom.errorBanner = S.dom.errorBanner
       /\ R.added <= 1
       /\ R.added = 1 => R.logItems = <<"HITL">>
       /\ R.added = 0 => R.logItems = S.logItems
       /\ S.uiState # "waiting_approval" =>
            (R.dom.approvalShown /\ R.dom.question = QuestionOf(p) /\ R.added = 1)
       /\ S.uiState = "waiting_approval" => R = S

\* a keepalive frame with an interrupt under values.interrupts, a step under
\* values.current_step and a node entry, classified while starting
C22_Witness ==
  /\ bench.fn = "handleSseEvent" /\ bench.calls = 1
  /\ bench.ev.event = "keepalive"
  /\ bench.ev.data.i4 = IntrCand
  /\ bench.ev.data.current_step = "human_approval"
  /\ \E i \in 1..Len(bench.ev.data.entries) : bench.ev.data.entries[i].k = "research_agent"
  /\ bench.S.uiState = "starting"
  /\ bench.R.uiState = "waiting_approval"

\* the facts a classified frame produced, read off the view
StepChanged == bench.R.dom.work # bench.S.dom.work
LogEntryAdded == bench.R.added > 0 /\ bench.R.logItems \in {<<"AGENT">>, <<"STATE">>, <<"SSE">>}
InterruptRaised == bench.R.uiState = "waiting_approval" /\ bench.S.uiState # "waiting_approval"

\* C23: the classifier stops at the first rule that matches: no frame yields both
\* a step change and a log entry, an interrupt comes alone, and a frame that carries
\* values.current_step (and is neither an interrupt nor a dropped keepalive/metadata
\* frame) yields that step change only.
C23_FirstMatchWins ==
  (bench.fn = "handleSseEvent" /\ bench.calls = 1) =>
    /\ ~(StepChanged /\ LogEntryAdded)
    /\ InterruptRaised => (~StepChanged /\ ~LogEntryAdded)
    /\ (/\ bench.ev.isObj
        /\ extractInterruptPayload(bench.ev.data) = NullPayload
        /\ bench.ev.event \notin {"metadata", "ping", "keepalive"}
        /\ bench.ev.data.hasValues /\ bench.ev.data.current_step # "")
       => (bench.R.dom.work = bench.ev.data.current_step /\ bench.R.added = 0)

\* a stage-started marker: a top-level entry with a non-empty string current_step
HasMarker(ents) == \E i \in 1..Len(ents) : ents[i].cs # ""
FirstMarker(ents) == ents[CHOOSE i \in 1..Len(ents) :
                            ents[i].cs # "" /\ \A j \in 1..(i - 1) : ents[j].cs = ""].cs
HasStageKey(ents) == \E i \in 1..Len(ents) : ents[i].k \in NODE_LABEL_KEYS

\* C24: an "updates" frame (without interrupt) with a stage-started marker sets the
\* step to the marker's value and adds no log entry, whatever the key of the entry;
\* one without a marker but with a known stage key adds exactly one log entry
\* and leaves the step.
C24_UpdatesMarkerOrEntry ==
  (bench.fn = "handleSseEvent" /\ bench.calls = 1 /\ bench.ev.event = "updates"
     /\ bench.ev.isObj /\ extractInterruptPayload(bench.ev.data) = NullPayload) =>
    LET ents == bench.ev.data.entries
    IN /\ HasMarker(ents) =>
            (bench.R.dom.work = FirstMarker(ents) /\ bench.R.added = 0)
       /\ (~HasMarker(ents) /\ HasStageKey(ents)) =>
            (bench.R.added = 1 /\ bench.R.logItems = <<"AGENT">>
               /\ bench.R.dom.work = bench.S.dom.work)

\* C25: when an opened stream closes without having produced a frame, the close
\* adds exactly one log entry, the warning, raises no error and leaves the phase;
\* the call goes on to the snapshot poll, whose answer decides the phase.
C25_ZeroFramesWarns ==
  [][\A t \in Ops :
       /\ (tasks[t].pc = "read" /\ tasks[t].events = 0 /\ tasks'[t].pc # "read"
             /\ last'.op = "close") =>
            /\ last'.added = 1 /\ logItems' = <<"WARN">>
            /\ uiState' = uiState
            /\ dom'.errorBanner = dom.errorBanner
            /\ tasks'[t].pc = "poll"
       /\ (tasks[t].pc = "poll" /\ tasks[t].events = 0 /\ last'.op = "poll" /\ last'.t = t) =>
            uiState' = IF HasInterrupt(last'.arg) THEN "waiting_approval" ELSE "done"
    ]_vars

\* a stream has just closed without a frame: the warning is the newest log entry,
\* the phase is still the busy one and the call waits for its snapshot
C25_Witness ==
  /\ last.op = "close" /\ last.added = 1
  /\ logItems = <<"WARN">>
  /\ uiState \in Busy /\ dom.errorBanner = ""
  /\ \E t \in Ops : last.t = t /\ tasks[t].pc = "poll" /\ tasks[t].events = 0

\* C26: after a reset, as long as no start (or decision) is issued, the phase is idle
\* and the session identifier is absent in memory and in storage: the step that
\* follows a reset, when it is the completion of a call begun before the reset
\* (thread creation, stream, snapshot poll, startup restore), changes none of them.
C26_NothingSurvivesReset ==
  [][(last.op = "clearAll" /\ last'.op \notin {"start", "handleDecision", "clearAll"}) =>
       (uiState' = "idle" /\ threadId' = Null /\ stored' = Null)]_vars

\* C27: when the snapshot poll of the startup restoration completes after a start
\* was issued, it does not change the session identifier in memory, does not remove
\* from storage an identifier other than the restored one, and does not change the
\* phase.
C27_LateRestoreIsIgnored ==
  [][(initPc = "poll" /\ initPc' = "done" /\ nOps >= 1) =>
       /\ threadId' = threadId
       /\ stored # savedTid => stored' = stored
       /\ uiState' = uiState]_vars

\* C28: whenever no call is in progress (no start or resume in flight, the startup
\* restoration finished), a non-null threadId is also the identifier in storage.
C28_MemoryAgreesWithStorage ==
  ((\A t \in Ops : ~InFlight(t)) /\ initPc = "done" /\ threadId # Null) => stored = threadId

\* C29: currentController is non-null only while the transport of its call is open
\* (or aborted and about to unwind), so it is null once a start or resume has
\* finished in any way unless a newer transport replaced it; a cancel that added
\* its log entry aborted an open transport.
C29_HandleOnlyWhileOpen ==
  /\ currentController # Null =>
       tasks[currentController].pc \in {"fetch", "read", "invoke"} \cup UnwindPcs
  /\ (last.op = "cancelInFlight" /\ last.added > 0) =>
       (last.t # 0 /\ tasks[last.t].pc \in UnwindPcs)

\* C30: when the snapshot poll of the startup restoration fails, the persisted
\* identifier leaves storage and is not made the active one, exactly one log
\* entry, a warning, is added, and neither the phase nor the error banner changes:
\* on a page where nothing else was done the phase is idle and there is no banner.
C30_FailedRestoreDiscards ==
  [][(initPc = "poll" /\ initPc' = "done" /\ last'.op = "initFail") =>
       /\ stored' = Null /\ threadId' = threadId
       /\ last'.added = 1 /\ logItems' = <<"WARN">>
       /\ uiState' = uiState
       /\ dom'.errorBanner = dom.errorBanner
       /\ nOps = 0 => (uiState' = "idle" /\ dom'.errorBanner = "" /\ threadId' = Null)
    ]_vars

\* the poll of a persisted identifier has just failed on an untouched page
C30_Witness ==
  /\ last.op = "initFail" /\ savedTid # Null /\ nOps = 0
  /\ stored = Null /\ threadId = Null
  /\ uiState = "idle" /\ logItems = <<"WARN">>

\* ---- the two clients side by side ----
\* One start or one resume is run in frontend/app.js (view S) and in
\* frontend_ls/app.js (view I) against the same server outcome.  Only the phase of
\* the two views is compared (the button locks setUiState derives differ by client).
Outcomes == {"interrupt", "completed", "failure"}

\* where the streaming call fails when the outcome is a failure
FailPoints(kind) ==
  IF kind = "start" THEN {"createThread", "fetch", "read", "poll"}
  ELSE {"fetch", "read", "poll"}

\* the phases in which the operation can be issued in both clients
IssuedIn(kind) == IF kind = "start" THEN {"idle", "done", "error"} ELSE {"waiting_approval"}

\* what the server sends for an outcome: frames of the stream, snapshot of the
\* thread, output.status of /agent/invoke
FramesFor(outcome) == IF outcome = "completed" THEN {"agent"} ELSE {"agent", "interrupt"}
SnapshotsFor(outcome) ==
  IF outcome = "interrupt" THEN {"interrupt", "interrupt+report"} ELSE {"report"}
StatusFor(outcome) == IF outcome = "interrupt" THEN "interrupted" ELSE "completed"

\* the phases a view went through, without repetitions
Seen(ps, S) == IF ps[Len(ps)] = S.uiState THEN ps ELSE Append(ps, S.uiState)

PairInit ==
  /\ Parked
  /\ \E kind \in {"start", "resume"}, outcome \in Outcomes :
       \E failAt \in FailPoints(kind) \cup {""}, phase \in IssuedIn(kind) :
         /\ (outcome = "failure") <=> (failAt # "")
         /\ bench = [fn |-> "runWithUi", kind |-> kind, outcome |-> outcome,
                     failAt |-> failAt,
                     S |-> ViewIn(phase, "-"), spc |-> "click", events |-> 0,
                     ps |-> <<phase>>,
                     I |-> ViewIn(phase, "-"), ipc |-> "click", pi |-> <<phase>>]

\* the streaming view after a step
StreamStep(S, pc, events) ==
  bench' = [bench EXCEPT !.S = S, !.spc = pc, !.events = events, !.ps = Seen(@, S)]

\* the invoke view after a step
InvokeStep(I, pc) ==
  bench' = [bench EXCEPT !.I = I, !.ipc = pc, !.pi = Seen(@, I)]

\* frontend/app.js: the click, up to the first network await
streamClick ==
  /\ bench.fn = "runWithUi" /\ bench.spc = "click"
  /\ IF bench.kind = "start"
     THEN StreamStep(resetViewForRun(setError(bench.S, "")), "createThread", 0)
     ELSE StreamStep(addLogEntry(setUiState(decisionView(bench.S), "resuming"), "RESUME"),
                     "fetch", 0)
  /\ UNCHANGED mainVars

\* createThread() returned or threw
streamThread ==
  /\ bench.fn = "runWithUi" /\ bench.spc = "createThread"
  /\ IF bench.failAt = "createThread"
     THEN StreamStep(runWithUiCatch(bench.S, "nothreadid"), "done", 0)
     ELSE StreamStep(addLogEntry(setUiState(setWork(addLogEntry(bench.S, "THREAD"), "-"),
                                            "starting"), "START"), "fetch", 0)
  /\ UNCHANGED mainVars

\* the fetch of runStream returned, or failed
streamFetch ==
  /\ bench.fn = "runWithUi" /\ bench.spc = "fetch"
  /\ IF bench.failAt = "fetch"
     THEN StreamStep(runWithUiCatch(bench.S, "http"), "done", 0)
     ELSE StreamStep(bench.S, "read", 0)
  /\ UNCHANGED mainVars

\* one frame of the body
streamFrame(n) ==
  /\ bench.fn = "runWithUi" /\ bench.spc = "read"
  /\ bench.events < MaxFrames
  /\ n \in FramesFor(bench.outcome)
  /\ StreamStep(handleSseEvent(bench.S, Frame(n)), "read", bench.events + 1)
  /\ UNCHANGED mainVars

\* the body ended, or the connection was lost
streamClose ==
  /\ bench.fn = "runWithUi" /\ bench.spc = "read"
  /\ IF bench.failAt = "read"
     THEN StreamStep(runWithUiCatch(bench.S, "network"), "done", bench.events)
     ELSE StreamStep(IF bench.events = 0 THEN addLogEntry(bench.S, "WARN") ELSE bench.S,
                     "poll", bench.events)
  /\ UNCHANGED mainVars

\* getThread(tid) returned, or threw
streamPoll(n) ==
  /\ bench.fn = "runWithUi" /\ bench.spc = "poll"
  /\ n \in SnapshotsFor(bench.outcome)
  /\ IF bench.failAt = "poll"
     THEN StreamStep(runWithUiCatch(bench.S, "http"), "done", bench.events)
     ELSE StreamStep(finishRun(bench.S, Snapshot(n)), "done", bench.events)
  /\ UNCHANGED mainVars

\* frontend_ls/app.js: the click, up to the fetch of callInvoke
invokeClick ==
  /\ bench.fn = "runWithUi" /\ bench.ipc = "click"
  /\ IF bench.kind = "start"
     THEN InvokeStep(addLogEntry(setUiState(resetViewForRun(setError(bench.I, "")),
                                            "starting"), "START"), "invoke")
     ELSE InvokeStep(addLogEntry(setUiState(decisionView(bench.I), "resuming"), "RESUME"),
                     "invoke")
  /\ UNCHANGED mainVars

\* callInvoke returned, or threw
invokeReturn ==
  /\ bench.fn = "runWithUi" /\ bench.ipc = "invoke"
  /\ IF bench.outcome = "failure"
     THEN InvokeStep(runWithUiCatch(bench.I, "http"), "done")
     ELSE InvokeStep(finishInvoke(bench.I, StatusFor(bench.outcome)), "done")
  /\ UNCHANGED mainVars

PairNext ==
  \/ streamClick
  \/ streamThread
  \/ streamFetch
  \/ \E n \in FrameNames : streamFrame(n)
  \/ streamClose
  \/ \E n \in SnapshotNames : streamPoll(n)
  \/ invokeClick
  \/ invokeReturn

PairSpec == PairInit /\ [][PairNext]_vars

\* the phase an outcome ends in
FinalPhase(outcome) ==
  CASE outcome = "interrupt" -> "waiting_approval"
    [] outcome = "completed" -> "done"
    [] OTHER -> "error"

\* C31: for the same server outcome of a start or a resume the two clients end in
\* the same phase (waiting_approval for an interrupt, done for a completed report,
\* error for a failed call) and went through the same phases in the same order.
C31_VariantsAgree ==
  (bench.fn = "runWithUi" /\ bench.spc = "done" /\ bench.ipc = "done") =>
    /\ bench.S.uiState = FinalPhase(bench.outcome)
    /\ bench.I.uiState = FinalPhase(bench.outcome)
    /\ bench.ps = bench.pi

\* the busy phase of an operation
BusyPhase(kind) == IF kind = "start" THEN "starting" ELSE "resuming"

\* C31 as the code has it: both clients end in the phase of the outcome; the
\* non-streaming client goes from the phase of the click to the busy phase to the
\* final phase; the streaming client goes through the same phases, except that it
\* skips the busy phase when the creation of the thread fails (start only) and
\* passes through waiting_approval when an interrupt frame came before the failure
\* of the stream or of the snapshot poll.
C31_SameFinalPhase ==
  (bench.fn = "runWithUi" /\ bench.spc = "done" /\ bench.ipc = "done") =>
    LET p0 == bench.pi[1]
        busy == BusyPhase(bench.kind)
        final == FinalPhase(bench.outcome)
    IN /\ bench.S.uiState = final /\ bench.I.uiState = final
       /\ bench.pi = <<p0, busy, final>>
       /\ bench.failAt = "createThread" =>
            bench.ps = (IF p0 = "error" THEN <<"error">> ELSE <<p0, "error">>)
       /\ bench.failAt \in {"read", "poll"} =>
            bench.ps \in {bench.pi, <<p0, busy, "waiting_approval", "error">>}
       /\ bench.failAt \in {"", "fetch"} => bench.ps = bench.pi

\* both clients finished a start that the server interrupted, the streaming one
\* after an interrupt frame
C31_Witness ==
  /\ bench.fn = "runWithUi" /\ bench.spc = "done" /\ bench.ipc = "done"
  /\ bench.kind = "start" /\ bench.outcome = "interrupt" /\ bench.events >= 1
  /\ bench.ps = <<"idle", "starting", "waiting_approval">>
  /\ bench.pi = bench.ps

====
